---- MODULE Spec2Model ----
(***************************************************************************)
(* State-machine model of src/app/app.py: the one-shot ingestion of a      *)
(* senseBox's measurements into the sensor_data table followed by the      *)
(* dashboard read and layout.  The table outlives the process, so a        *)
(* behaviour is a sequence of process runs against the same table.         *)
(***************************************************************************)
EXTENDS Integers, Sequences, FiniteSets, Bags, TLC

\* ------------------------------------------------------------------ bounds
MaxRuns == 2
MaxTs == 2
MaxLen == 2
MaxMeta == 2

\* ------------------------------------------------------------- JSON values
\* A JSON scalar as the API may send it in a point's "value".
JNull == [t |-> "null", n |-> 0, s |-> <<>>]
JNum(k) == [t |-> "num", n |-> k, s |-> <<>>]
JStr(chars) == [t |-> "str", n |-> 0, s |-> chars]
JList == [t |-> "list", n |-> 0, s |-> <<>>]

\* A DOUBLE PRECISION cell: NULL, a number, or NaN.
Null == [k |-> "null", v |-> 0]
Num(x) == [k |-> "num", v |-> x]
NaN == [k |-> "nan", v |-> 0]

NoneText == "None"
SENSEBOX_ID == "box1"
OtherBox == "box2"

Get(obj, key, default) == IF key \in DOMAIN obj THEN obj[key] ELSE default

Digits == {"0", "1", "2", "3", "4", "5", "6", "7", "8", "9"}
DigitVal(c) == CASE c = "0" -> 0 [] c = "1" -> 1 [] c = "2" -> 2 [] c = "3" -> 3
                 [] c = "4" -> 4 [] c = "5" -> 5 [] c = "6" -> 6 [] c = "7" -> 7
                 [] c = "8" -> 8 [] OTHER -> 9

RECURSIVE DigitsValue(_)
DigitsValue(chars) ==
    IF chars = <<>> THEN 0
    ELSE 10 * DigitsValue(SubSeq(chars, 1, Len(chars) - 1)) + DigitVal(chars[Len(chars)])

\* Python's float(x) on a JSON value: a number converts, a string converts
\* when it is a string of digits or "nan", any other string raises
\* ValueError, and a list or None raises TypeError (ok = FALSE).
Float(x) ==
    CASE x.t = "num" -> [ok |-> TRUE, val |-> Num(x.n)]
      [] x.t = "str" /\ x.s = <<"n", "a", "n">> -> [ok |-> TRUE, val |-> NaN]
      [] x.t = "str" /\ x.s # <<>> /\ (\A i \in DOMAIN x.s : x.s[i] \in Digits)
            -> [ok |-> TRUE, val |-> Num(DigitsValue(x.s))]
      [] OTHER -> [ok |-> FALSE, val |-> Null]

\* ------------------------------------------------------------ the upstream
SensorEntries ==
    { ("_id" :> "sA") @@ ("sensorType" :> "temp") @@ ("unit" :> "C") @@ ("icon" :> "thermo"),
      ("_id" :> "sB") @@ ("sensorType" :> "hum"),
      ("_id" :> "sA") @@ ("unit" :> "F"),
      ("sensorType" :> "temp") @@ ("unit" :> "C") }

SensorIds == {"sA", "sB"}

RECURSIVE SeqsUpTo(_, _)
SeqsUpTo(S, n) ==
    IF n = 0 THEN {<<>>}
    ELSE LET shorter == SeqsUpTo(S, n - 1)
         IN shorter \cup {Append(q, x) : q \in {r \in shorter : Len(r) = n - 1}, x \in S}

\* What the metadata request may produce: a failed request, a body that is
\* empty, a body without "sensors", or a body with a "sensors" list.
MetaResponses ==
    { [status |-> "error", truthy |-> FALSE, has_sensors |-> FALSE, sensors |-> <<>>],
      [status |-> "ok", truthy |-> FALSE, has_sensors |-> FALSE, sensors |-> <<>>],
      [status |-> "ok", truthy |-> TRUE, has_sensors |-> FALSE, sensors |-> <<>>] }
    \cup { [status |-> "ok", truthy |-> TRUE, has_sensors |-> TRUE, sensors |-> l] :
             l \in SeqsUpTo(SensorEntries, MaxMeta) }

\* What the run keeps of a response once the registry is built: whether it
\* was truthy, whether it had "sensors", and whether that list was empty.
Seen(resp) ==
    [status |-> resp.status, truthy |-> resp.truthy, has_sensors |-> resp.has_sensors,
     no_sensors |-> resp.sensors = <<>>]

NoMetadata == [status |-> "unset", truthy |-> FALSE, has_sensors |-> FALSE, no_sensors |-> TRUE]

Values == { JNull, JNum(1), JStr(<<"2">>), JStr(<<"a", "b", "c">>),
            JStr(<<"n", "a", "n">>), JList }

\* Every shape of point: both fields, no "value", no "createdAt".
AllPoints ==
    { ("createdAt" :> ts) @@ ("value" :> v) : ts \in 1..MaxTs, v \in Values }
    \cup { ("createdAt" :> ts) : ts \in 1..MaxTs }
    \cup { ("value" :> v) : v \in Values }

\* The points the API serves in the runs: two readings of one instant that
\* differ, and one whose value is no number.
Points ==
    { ("createdAt" :> 1) @@ ("value" :> JNum(1)),
      ("createdAt" :> 1) @@ ("value" :> JStr(<<"2">>)),
      ("createdAt" :> 1) @@ ("value" :> JStr(<<"a", "b", "c">>)) }

\* What a series request may produce: a failed request, a body that is not
\* a list of objects, or a list of points.
SeriesResponses ==
    { [status |-> "error", items |-> <<>>], [status |-> "malformed", items |-> <<>>] }
    \cup { [status |-> "ok", items |-> l] : l \in SeqsUpTo(Points, MaxLen) }

\* ----------------------------------------------------------- the registry
\* dict assignment d[k] = v on an insertion-ordered dict kept as a sequence
\* of entries: an existing key keeps its position and takes the new value.
DictSet(d, k, v) ==
    IF \E i \in DOMAIN d : d[i].id = k
    THEN [i \in DOMAIN d |-> IF d[i].id = k THEN [id |-> k, details |-> v] ELSE d[i]]
    ELSE Append(d, [id |-> k, details |-> v])

Details(s) ==
    [type |-> Get(s, "sensorType", "unknown"),
     unit |-> Get(s, "unit", ""),
     icon |-> Get(s, "icon", NoneText)]

RECURSIVE BuildSensorDetails(_)
BuildSensorDetails(sensors) ==
    IF sensors = <<>> THEN <<>>
    ELSE LET rest == BuildSensorDetails(SubSeq(sensors, 1, Len(sensors) - 1))
             s == sensors[Len(sensors)]
         IN IF "_id" \in DOMAIN s THEN DictSet(rest, s["_id"], Details(s)) ELSE rest

MetadataInvalid(m) == ~m.truthy \/ ~m.has_sensors

\* ------------------------------------------------------------ normalisation
Tuple(item, val, sensor_id, details) ==
    [timestamp |-> item["createdAt"], box_id |-> SENSEBOX_ID, sensor_id |-> sensor_id,
     measurement |-> val, unit |-> details.unit, sensor_type |-> details.type,
     icon |-> details.icon]

\* float() applied to None as well: TypeError, the point is dropped.
MeasurementVal_NoneRejected(item) == Float(item["value"])

MeasurementVal(item) ==
    IF item["value"] # JNull THEN Float(item["value"]) ELSE [ok |-> TRUE, val |-> Null]

RECURSIVE DataToInsert(_, _, _)
DataToInsert(sensor_data, sensor_id, details) ==
    IF sensor_data = <<>> THEN <<>>
    ELSE LET rest == DataToInsert(SubSeq(sensor_data, 1, Len(sensor_data) - 1), sensor_id, details)
             item == sensor_data[Len(sensor_data)]
         IN IF "createdAt" \in DOMAIN item /\ "value" \in DOMAIN item
            THEN IF MeasurementVal(item).ok
                 THEN Append(rest, Tuple(item, MeasurementVal(item).val, sensor_id, details))
                 ELSE rest
            ELSE rest

\* ---------------------------------------------------------------- the table
Key(row) == <<row.timestamp, row.box_id, row.sensor_id>>
Keys(rows) == {Key(r) : r \in rows}
BatchKeys(batch) == {Key(batch[i]) : i \in DOMAIN batch}

\* The insert without its ON CONFLICT clause against a table without the
\* constraint: every row goes in.
InsertRow_NoConflict(committed, own, row) == own (+) SetToBag({row})

\* The conflict seen only among the transaction's own rows.
InsertRow_OwnOnly(committed, own, row) ==
    IF Key(row) \in Keys(BagToSet(own)) THEN own ELSE own (+) SetToBag({row})

\* INSERT ... ON CONFLICT (timestamp, box_id, sensor_id) DO NOTHING of one
\* row, in a transaction that sees the committed rows and its own.
InsertRow(committed, own, row) ==
    IF Key(row) \in Keys(BagToSet(committed (+) own))
    THEN own
    ELSE own (+) SetToBag({row})

\* executemany: the statement once per tuple, in order.
RECURSIVE ExecuteMany(_, _, _)
ExecuteMany(committed, own, batch) ==
    IF batch = <<>> THEN own
    ELSE ExecuteMany(committed, InsertRow(committed, own, Head(batch)), Tail(batch))

\* A commit that makes nothing durable.
CommitTx_Lost(committed, own) == committed

CommitTx(committed, own) == committed (+) own

\* A row another deployment wrote for another box.
ForeignRow ==
    [timestamp |-> 1, box_id |-> OtherBox, sensor_id |-> "sA", measurement |-> Num(1),
     unit |-> "C", sensor_type |-> "temp", icon |-> NoneText]

\* ------------------------------------------------------------ the dashboard
\* Text collation of the strings that occur, for ORDER BY.
TextRank(s) ==
    CASE s = "hum" -> 1 [] s = "temp" -> 2 [] s = "unknown" -> 3
      [] s = "sA" -> 1 [] s = "sB" -> 2 [] OTHER -> 0

RowBefore(a, b) ==
    \/ TextRank(a.sensor_type) < TextRank(b.sensor_type)
    \/ /\ a.sensor_type = b.sensor_type
       /\ \/ TextRank(a.sensor_id) < TextRank(b.sensor_id)
          \/ a.sensor_id = b.sensor_id /\ a.timestamp <= b.timestamp

RECURSIVE OrderBy(_)
OrderBy(rows) ==
    IF rows = {} THEN <<>>
    ELSE LET first == CHOOSE r \in rows : \A q \in rows : RowBefore(r, q) \/ ~RowBefore(q, r)
         IN <<first>> \o OrderBy(rows \ {first})

\* SELECT timestamp, measurement, sensor_id, sensor_type, unit FROM sensor_data
\* WHERE box_id = %s ORDER BY sensor_type, sensor_id, timestamp
SelectForDashboard(table, box) ==
    LET hit == {r \in BagToSet(table) : r.box_id = box}
        sorted == OrderBy(hit)
    IN [i \in DOMAIN sorted |->
          [timestamp |-> sorted[i].timestamp, measurement |-> sorted[i].measurement,
           sensor_id |-> sorted[i].sensor_id, sensor_type |-> sorted[i].sensor_type,
           unit |-> sorted[i].unit]]

Plottable(r) == r.measurement.k = "num"

\* No cleaning.
DropNa_KeepAll(df) == df

\* to_numeric(errors='coerce') then dropna on measurement and timestamp.
DropNa(df) == SelectSeq(df, Plottable)

RECURSIVE Unique(_)
Unique(ids) ==
    IF ids = <<>> THEN <<>>
    ELSE LET rest == Unique(SubSeq(ids, 1, Len(ids) - 1))
             x == ids[Len(ids)]
         IN IF \E i \in DOMAIN rest : rest[i] = x THEN rest ELSE Append(rest, x)

Panel(df_sensor, sensor_id) ==
    LET sensor_type == df_sensor[1].sensor_type
        unit == df_sensor[1].unit
    IN [title |-> <<sensor_type, sensor_id>>,
        yaxis |-> IF unit # "" THEN <<sensor_type, unit>> ELSE <<sensor_type>>]

Graphs(df) ==
    IF df = <<>> THEN <<>>
    ELSE LET clean == DropNa(df)
             unique_sensor_ids == Unique([i \in DOMAIN clean |-> clean[i].sensor_id])
         IN [j \in DOMAIN unique_sensor_ids |->
               LET sid == unique_sensor_ids[j]
                   HasId(r) == r.sensor_id = sid
               IN Panel(SelectSeq(clean, HasId), sid)]

Layout(gs) == IF gs # <<>> THEN "graphs" ELSE "placeholder"

\* -------------------------------------------------------------------- state
VARIABLES
    run,              \* which process run this is (the table outlives a run)
    pc,               \* the script's position
    exit_code,        \* 1 once sys.exit(1) was called, -1 while none was
    conn_insert,      \* "none", "open" or "closed"
    metadata,         \* the metadata response, as Seen keeps it
    sensor_details,   \* the registry, in insertion order
    idx,              \* position of the for loop in sensor_details
    sensor_data,      \* the current sensor's series
    data_to_insert,   \* the current sensor's batch
    store,            \* the committed rows of sensor_data (a bag)
    pending,          \* rows of the insert connection's open transaction
    conn_read,        \* "none", "open" or "closed"
    df_all_sensors,   \* the data frame read for the dashboard
    graphs,           \* the panels
    layout,           \* "none", "graphs" or "placeholder"
    log,              \* what the run printed, as events
    upstream          \* the upstream held fixed across runs (SpecRerun only)

vars == <<run, pc, exit_code, conn_insert, metadata, sensor_details, idx, sensor_data,
          data_to_insert, store, pending, conn_read, df_all_sensors, graphs, layout,
          log, upstream>>

Event(e, sensor, count) == [event |-> e, sensor |-> sensor, count |-> count]

NoUpstream ==
    [meta |-> NoMetadata, series |-> [s \in SensorIds |-> [status |-> "unset", items |-> <<>>]]]

ProcessStart ==
    /\ pc = "start"
    /\ exit_code = -1
    /\ conn_insert = "none"
    /\ metadata = NoMetadata
    /\ sensor_details = <<>>
    /\ idx = 0
    /\ sensor_data = <<>>
    /\ data_to_insert = <<>>
    /\ pending = EmptyBag
    /\ conn_read = "none"
    /\ df_all_sensors = <<>>
    /\ graphs = <<>>
    /\ layout = "none"
    /\ log = <<>>

Init ==
    /\ run = 1
    /\ ProcessStart
    /\ store = EmptyBag
    /\ upstream = NoUpstream

\* ---------------------------------------------------------------- ingestion
\* sys.exit(1) inside the try: the finally clause runs, then the process ends.
Fatal(e) ==
    /\ exit_code' = 1
    /\ log' = Append(log, Event(e, "", 0))
    /\ pc' = "finally"

\* Lines 27-28: the insert connection opens.
Connect ==
    /\ pc = "start"
    /\ conn_insert' = "open"
    /\ pc' = "fetch_meta"
    /\ UNCHANGED <<run, exit_code, metadata, sensor_details, idx, sensor_data, data_to_insert,
                   store, pending, conn_read, df_all_sensors, graphs, layout, log,
                   upstream>>

\* Line 27 raises psycopg2.Error: lines 109-111.
ConnectFail ==
    /\ pc = "start"
    /\ Fatal("db_error")
    /\ UNCHANGED <<run, conn_insert, metadata, sensor_details, idx, sensor_data, data_to_insert,
                   store, pending, conn_read, df_all_sensors, graphs, layout, upstream>>

\* Lines 32-33 raise RequestException: lines 106-108.
MetadataFetchFail(resp) ==
    /\ pc = "fetch_meta"
    /\ resp.status = "error"
    /\ Fatal("api_error")
    /\ UNCHANGED <<run, conn_insert, metadata, sensor_details, idx, sensor_data, data_to_insert,
                   store, pending, conn_read, df_all_sensors, graphs, layout,
                   upstream>>

\* Lines 32-38: the metadata arrives and is rejected.
MetadataRejected(resp) ==
    /\ pc = "fetch_meta"
    /\ resp.status = "ok"
    /\ MetadataInvalid(resp)
    /\ metadata' = Seen(resp)
    /\ Fatal("bad_metadata")
    /\ UNCHANGED <<run, conn_insert, sensor_details, idx, sensor_data, data_to_insert,
                   store, pending, conn_read, df_all_sensors, graphs, layout,
                   upstream>>

\* Lines 32-48: the metadata arrives, passes, and the registry is built.
MetadataAccepted(resp) ==
    /\ pc = "fetch_meta"
    /\ resp.status = "ok"
    /\ ~MetadataInvalid(resp)
    /\ metadata' = Seen(resp)
    /\ sensor_details' = BuildSensorDetails(resp.sensors)
    /\ idx' = 1
    /\ pc' = "loop"
    /\ UNCHANGED <<run, exit_code, conn_insert, sensor_data, data_to_insert, store, pending,
                   conn_read, df_all_sensors, graphs, layout, log, upstream>>

InLoop == pc = "loop" /\ idx <= Len(sensor_details)
sensor_id == sensor_details[idx].id
details == sensor_details[idx].details

\* The iteration ends with one line printed for the sensor.
EndIteration(e, count) ==
    /\ log' = Append(log, Event(e, sensor_id, count))
    /\ pc' = "iter_end"

\* A failed series request taken by the outer handler.
SeriesFetchFail_Fatal(resp) ==
    /\ InLoop
    /\ resp.status = "error"
    /\ exit_code' = 1
    /\ log' = Append(log, Event("fetch_failed", sensor_id, 0))
    /\ pc' = "finally"
    /\ UNCHANGED <<run, conn_insert, metadata, sensor_details, idx, sensor_data,
                   data_to_insert, store, pending, conn_read, df_all_sensors, graphs, layout,
                   upstream>>

\* Lines 59-60 raise RequestException: lines 99-100.
SeriesFetchFail(resp) ==
    /\ InLoop
    /\ resp.status = "error"
    /\ EndIteration("fetch_failed", 0)
    /\ UNCHANGED <<run, exit_code, conn_insert, metadata, sensor_details, idx, sensor_data,
                   data_to_insert, store, pending, conn_read, df_all_sensors, graphs, layout, upstream>>

\* The body is not a list of objects and lines 61-68 raise something that is
\* no RequestException: lines 101-102.
SeriesMalformed(resp) ==
    /\ InLoop
    /\ resp.status = "malformed"
    /\ EndIteration("unexpected", 0)
    /\ UNCHANGED <<run, exit_code, conn_insert, metadata, sensor_details, idx, sensor_data,
                   data_to_insert, store, pending, conn_read, df_all_sensors, graphs, layout, upstream>>

\* Lines 59-61: the series arrives.
SeriesFetched(resp) ==
    /\ InLoop
    /\ resp.status = "ok"
    /\ sensor_data' = resp.items
    /\ pc' = "fetched"
    /\ UNCHANGED <<run, exit_code, conn_insert, metadata, sensor_details, idx, data_to_insert,
                   store, pending, conn_read, df_all_sensors, graphs, layout, log,
                   upstream>>

\* Lines 63, 96-97: an empty list.
NoData ==
    /\ pc = "fetched"
    /\ sensor_data = <<>>
    /\ EndIteration("no_data", 0)
    /\ UNCHANGED <<run, exit_code, conn_insert, metadata, sensor_details, idx, sensor_data,
                   data_to_insert, store, pending, conn_read, df_all_sensors, graphs, layout, upstream>>

\* Lines 63-84, 94-95: the batch is built; an empty batch is not inserted.
Normalize ==
    /\ pc = "fetched"
    /\ sensor_data # <<>>
    /\ data_to_insert' = DataToInsert(sensor_data, sensor_id, details)
    /\ IF data_to_insert' # <<>>
       THEN pc' = "insert" /\ log' = log
       ELSE EndIteration("no_valid", 0)
    /\ UNCHANGED <<run, exit_code, conn_insert, metadata, sensor_details, idx, sensor_data,
                   store, pending, conn_read, df_all_sensors, graphs, layout,
                   upstream>>

\* Line 91.
Execute ==
    /\ pc = "insert"
    /\ pending' = ExecuteMany(store, pending, data_to_insert)
    /\ pc' = "commit"
    /\ UNCHANGED <<run, exit_code, conn_insert, metadata, sensor_details, idx, sensor_data,
                   data_to_insert, store, conn_read, df_all_sensors, graphs, layout, log, upstream>>

\* The inner handler of lines 101-102 takes a psycopg2.Error of line 91 or 92;
\* the failed transaction's rows are lost.
InnerDbError ==
    /\ pending' = EmptyBag
    /\ EndIteration("unexpected_db", 0)

ExecuteFail ==
    /\ pc = "insert"
    /\ InnerDbError
    /\ UNCHANGED <<run, exit_code, conn_insert, metadata, sensor_details, idx, sensor_data,
                   data_to_insert, store, conn_read, df_all_sensors, graphs, layout, upstream>>

\* Lines 92-93.
Commit ==
    /\ pc = "commit"
    /\ store' = CommitTx(store, pending)
    /\ pending' = EmptyBag
    /\ EndIteration("inserted", Len(data_to_insert))
    /\ UNCHANGED <<run, exit_code, conn_insert, metadata, sensor_details, idx, sensor_data,
                   data_to_insert, conn_read, df_all_sensors, graphs, layout,
                   upstream>>

CommitFail ==
    /\ pc = "commit"
    /\ InnerDbError
    /\ UNCHANGED <<run, exit_code, conn_insert, metadata, sensor_details, idx, sensor_data,
                   data_to_insert, store, conn_read, df_all_sensors, graphs, layout, upstream>>

\* Line 51: the loop takes the next sensor; the iteration's values are dead.
NextSensor ==
    /\ pc = "iter_end"
    /\ idx' = idx + 1
    /\ sensor_data' = <<>>
    /\ data_to_insert' = <<>>
    /\ pc' = "loop"
    /\ UNCHANGED <<run, exit_code, conn_insert, metadata, sensor_details, store, pending,
                   conn_read, df_all_sensors, graphs, layout, log, upstream>>

\* Line 104: the loop is exhausted.
LoadComplete ==
    /\ pc = "loop"
    /\ idx > Len(sensor_details)
    /\ log' = Append(log, Event("load_complete", "", 0))
    /\ pc' = "finally"
    /\ UNCHANGED <<run, exit_code, conn_insert, metadata, sensor_details, idx, sensor_data,
                   data_to_insert, store, pending, conn_read, df_all_sensors, graphs, layout, upstream>>

\* SystemExit swallowed: the script goes on after the finally.
AfterFinally_Read == "read"

AfterFinally == IF exit_code = 1 THEN "exited" ELSE "read"

\* Lines 115-119: the insert connection closes (an open transaction is
\* rolled back); after sys.exit(1) the process ends here.
Finally ==
    /\ pc = "finally"
    /\ conn_insert' = IF conn_insert = "open" THEN "closed" ELSE conn_insert
    /\ pending' = EmptyBag
    /\ pc' = AfterFinally
    /\ UNCHANGED <<run, exit_code, metadata, sensor_details, idx, sensor_data, data_to_insert,
                   store, conn_read, df_all_sensors, graphs, layout, log, upstream>>

\* ------------------------------------------------------------- presentation
\* The read's error handler ending the process.
ReadErrorHandled_Fatal ==
    /\ log' = Append(log, Event("read_error", "", 0))
    /\ df_all_sensors' = df_all_sensors
    /\ exit_code' = 1
    /\ pc' = "exited"

\* Lines 138-147: psycopg2.Error of the read is printed, the frame stays
\* empty, and the script goes on to the layout.
ReadErrorHandled ==
    /\ log' = Append(log, Event("read_error", "", 0))
    /\ df_all_sensors' = df_all_sensors
    /\ exit_code' = exit_code
    /\ pc' = "layout"

\* Line 126 raises: no read connection exists, the finally closes nothing.
ReadConnectFail ==
    /\ pc = "read"
    /\ ReadErrorHandled
    /\ UNCHANGED <<run, conn_insert, metadata, sensor_details, idx, sensor_data,
                   data_to_insert, store, pending, conn_read, graphs, layout,
                   upstream>>

\* Lines 126-136, 144-147: the read connection opens, the query fills the
\* frame, the finally closes the connection.
ReadQuery ==
    /\ pc = "read"
    /\ df_all_sensors' = SelectForDashboard(store, SENSEBOX_ID)
    /\ log' = Append(log, Event("fetched_records", "", Len(df_all_sensors')))
    /\ conn_read' = "closed"
    /\ pc' = "layout"
    /\ UNCHANGED <<run, exit_code, conn_insert, metadata, sensor_details, idx, sensor_data,
                   data_to_insert, store, pending, graphs, layout, upstream>>

\* Line 135 raises: the finally closes the connection.
ReadQueryFail ==
    /\ pc = "read"
    /\ ReadErrorHandled
    /\ conn_read' = "closed"
    /\ UNCHANGED <<run, conn_insert, metadata, sensor_details, idx, sensor_data,
                   data_to_insert, store, pending, graphs, layout, upstream>>

\* Lines 150-201: the panels and the layout are built and the app serves.
BuildLayout ==
    /\ pc = "layout"
    /\ graphs' = Graphs(df_all_sensors)
    /\ layout' = Layout(graphs')
    /\ pc' = "serving"
    /\ UNCHANGED <<run, exit_code, conn_insert, metadata, sensor_details, idx, sensor_data,
                   data_to_insert, store, pending, conn_read, df_all_sensors, log,
                   upstream>>

\* The process has ended (sys.exit(1)) or is stopped while serving, and the
\* script is started again against the same table.
StartRun ==
    /\ pc \in {"exited", "serving"}
    /\ run < MaxRuns
    /\ run' = run + 1
    /\ pc' = "start"
    /\ exit_code' = -1
    /\ conn_insert' = "none"
    /\ metadata' = NoMetadata
    /\ sensor_details' = <<>>
    /\ idx' = 0
    /\ sensor_data' = <<>>
    /\ data_to_insert' = <<>>
    /\ pending' = EmptyBag
    /\ conn_read' = "none"
    /\ df_all_sensors' = <<>>
    /\ graphs' = <<>>
    /\ layout' = "none"
    /\ log' = <<>>
    /\ UNCHANGED <<store, upstream>>

\* ------------------------------------------------------------ specifications
Steps ==
    \/ Connect \/ NoData \/ Normalize \/ Execute \/ Commit
    \/ NextSensor \/ LoadComplete \/ Finally

\* The database raises during ingestion.
Faults == ConnectFail \/ ExecuteFail \/ CommitFail

Present == ReadConnectFail \/ ReadQuery \/ ReadQueryFail \/ BuildLayout

Next ==
    \/ Steps
    \/ Faults
    \/ Present
    \/ StartRun
    \/ \E resp \in MetaResponses :
         MetadataFetchFail(resp) \/ MetadataRejected(resp) \/ MetadataAccepted(resp)
    \/ \E resp \in SeriesResponses :
         SeriesFetchFail(resp) \/ SeriesMalformed(resp) \/ SeriesFetched(resp)

\* Runs of the script against one table, the API and the database free to
\* answer differently each time.
Spec == Init /\ [][Next]_vars

\* --- the same upstream on every run
RerunEntries == {e \in SensorEntries : "_id" \in DOMAIN e /\ "sensorType" \in DOMAIN e}

RerunMetas ==
    {m \in MetaResponses : \A i \in DOMAIN m.sensors : m.sensors[i] \in RerunEntries}

RerunSeries ==
    {r \in SeriesResponses : r.status # "malformed" /\ Len(r.items) <= 1}
    \cup {[status |-> "ok",
           items |-> << ("createdAt" :> 1) @@ ("value" :> JNum(1)),
                        ("createdAt" :> 1) @@ ("value" :> JStr(<<"2">>)) >>]}

InitRerun ==
    /\ run = 1
    /\ ProcessStart
    /\ store \in {EmptyBag, SetToBag({ForeignRow})}
    /\ upstream \in [meta : RerunMetas, series : [SensorIds -> RerunSeries]]

\* Every run gets upstream's answers; the database is healthy in the first
\* run and may raise in the later ones.
NextRerun ==
    \/ Steps
    \/ run > 1 /\ Faults
    \/ Present
    \/ StartRun
    \/ MetadataFetchFail(upstream.meta)
    \/ MetadataRejected(upstream.meta)
    \/ MetadataAccepted(upstream.meta)
    \/ InLoop /\ SeriesFetchFail(upstream.series[sensor_id])
    \/ InLoop /\ SeriesFetched(upstream.series[sensor_id])

SpecRerun == InitRerun /\ [][NextRerun]_vars

\* --- one sensor's series, of every shape, from the fetch to the commit
Registries == {BuildSensorDetails(<<e>>) : e \in RerunEntries}

InitSeries ==
    /\ run = 1
    /\ pc = "fetched"
    /\ exit_code = -1
    /\ conn_insert = "open"
    /\ metadata = [status |-> "ok", truthy |-> TRUE, has_sensors |-> TRUE, no_sensors |-> FALSE]
    /\ sensor_details \in Registries
    /\ idx = 1
    /\ sensor_data \in SeqsUpTo(AllPoints, MaxLen)
    /\ data_to_insert = <<>>
    /\ store = EmptyBag
    /\ pending = EmptyBag
    /\ conn_read = "none"
    /\ df_all_sensors = <<>>
    /\ graphs = <<>>
    /\ layout = "none"
    /\ log = <<>>
    /\ upstream = NoUpstream

NextSeries == NoData \/ Normalize \/ Execute \/ ExecuteFail \/ Commit \/ CommitFail

SpecSeries == InitSeries /\ [][NextSeries]_vars

\* --- the presentation over every table earlier runs can have left
StoredDetails(s) ==
    IF s = "sA"
    THEN {[type |-> "temp", unit |-> "C", icon |-> "thermo"],
          [type |-> "unknown", unit |-> "F", icon |-> NoneText]}
    ELSE {[type |-> "hum", unit |-> "", icon |-> NoneText]}

StoredRows(ts, s) ==
    {[timestamp |-> ts, box_id |-> SENSEBOX_ID, sensor_id |-> s, measurement |-> m,
      unit |-> d.unit, sensor_type |-> d.type, icon |-> d.icon] :
        m \in {Null, Num(1), NaN}, d \in StoredDetails(s)}

TableKeys == (1..MaxTs) \X SensorIds

\* The sets of rows over the keys ks with at most one row per key.
RECURSIVE RowSets(_)
RowSets(ks) ==
    IF ks = {} THEN {{}}
    ELSE LET k == CHOOSE x \in ks : TRUE
             rest == RowSets(ks \ {k})
         IN rest \cup {rows \cup {r} : rows \in rest, r \in StoredRows(k[1], k[2])}

Tables ==
    {SetToBag(rows \cup foreign) : rows \in RowSets(TableKeys), foreign \in {{}, {ForeignRow}}}

InitDashboard ==
    /\ run = 1
    /\ pc = "read"
    /\ exit_code = -1
    /\ conn_insert = "closed"
    /\ metadata = [status |-> "ok", truthy |-> TRUE, has_sensors |-> TRUE, no_sensors |-> TRUE]
    /\ sensor_details = <<>>
    /\ idx = 1
    /\ sensor_data = <<>>
    /\ data_to_insert = <<>>
    /\ store \in Tables
    /\ pending = EmptyBag
    /\ conn_read = "none"
    /\ df_all_sensors = <<>>
    /\ graphs = <<>>
    /\ layout = "none"
    /\ log = <<Event("load_complete", "", 0)>>
    /\ upstream = NoUpstream

NextDashboard == Present

SpecDashboard == InitDashboard /\ [][NextDashboard]_vars

\* ------------------------------------------------------------------- claims
Rows == BagToSet(store)
Logged(e) == \E i \in DOMAIN log : log[i].event = e
LastEvent == IF log = <<>> THEN "" ELSE log[Len(log)].event
SensorEvents ==
    {i \in DOMAIN log : log[i].event \in {"fetch_failed", "unexpected", "no_data", "no_valid",
                                          "inserted", "unexpected_db"}}
Serving == pc \in {"read", "layout", "serving"}
Batch == {data_to_insert[i] : i \in DOMAIN data_to_insert}

UniqueKeys ==
    /\ \A r \in DOMAIN store : store[r] = 1
    /\ \A r, q \in Rows : Key(r) = Key(q) => r = q

\* C1: over any sequence of runs the table holds at most one row per key
\* (timestamp, box_id, sensor_id), and a row, once stored, is never changed by
\* a later insert of its key: the row of that key stays the one first written.
C1_UniqueFirstWriteWins ==
    /\ []UniqueKeys
    /\ [][\A r \in Rows : \A q \in BagToSet(store') : Key(q) = Key(r) => q = r]_vars

\* A later run has committed a batch holding a tuple whose key was already
\* stored with other fields, and the stored row is the old one.
C1_Witness ==
    /\ run > 1
    /\ pc = "iter_end"
    /\ LastEvent = "inserted"
    /\ \E t \in Batch : \E r \in Rows :
         Key(r) = Key(t) /\ r.measurement # t.measurement /\ r.unit # t.unit

\* C2: with the same upstream on every run (same metadata, same series, same
\* fetch outcomes) and a first run in which the database did not raise, no
\* step of a later run changes the table: its rows and their count after the
\* second run are those after the first.
C2_RerunLeavesStore == [][run > 1 => store' = store]_vars

\* The second run has committed a batch of valid points for the box.
C2_Witness ==
    /\ run = 2
    /\ pc = "iter_end"
    /\ LastEvent = "inserted"
    /\ \E t \in Batch : Key(t) \in Keys(Rows)
    /\ BagCardinality(store) >= 1

\* C3: a series request that fails is not fatal and does not stop the loop:
\* the run never exits with 1 after it, every sensor of the registry has been
\* visited when the load completes, a sensor whose fetch succeeded with a
\* valid point gets its insert attempted, and the keys of a batch reported
\* inserted are committed.
C3_FetchFailureIsolated ==
    /\ Logged("fetch_failed") => exit_code = -1
    /\ LastEvent = "fetch_failed"
          => pc \in {"iter_end", "loop", "fetched", "insert", "commit"} /\ conn_insert = "open"
    /\ (Logged("load_complete") /\ exit_code = -1)
          => Cardinality(SensorEvents) = Len(sensor_details)
    /\ (pc = "iter_end" /\ sensor_data # <<>>
          /\ DataToInsert(sensor_data, sensor_id, details) # <<>>)
          => LastEvent \in {"inserted", "unexpected_db"}
    /\ (pc = "iter_end" /\ LastEvent = "inserted")
          => data_to_insert # <<>> /\ BatchKeys(data_to_insert) \subseteq Keys(Rows)

\* Sensor A's fetch failed, then sensor B's batch was committed, and the
\* load completed.
C3_Witness ==
    /\ Len(sensor_details) = 2
    /\ Len(log) = 3
    /\ log[1].event = "fetch_failed"
    /\ log[2].event = "inserted"
    /\ log[3].event = "load_complete"
    /\ \E r \in Rows : r.sensor_id = log[2].sensor /\ r.box_id = SENSEBOX_ID
    /\ exit_code = -1

\* C4 (as claimed): metadata that arrives with an empty "sensors" list ends
\* the process with exit code 1; it never gets to the loop or to serving.
C4_EmptySensorsIsFatal ==
    (metadata.status = "ok" /\ metadata.has_sensors /\ metadata.no_sensors)
        => (exit_code = 1 /\ pc \in {"finally", "exited"})

\* C5 (as claimed): a database error during ingestion (connect, executemany,
\* commit) ends the process with exit code 1; no later sensor is processed.
C5_DbErrorIsFatal ==
    (Logged("db_error") \/ Logged("unexpected_db"))
        => (exit_code = 1 /\ pc \in {"finally", "exited"})

HasBoth(item) == "createdAt" \in DOMAIN item /\ "value" \in DOMAIN item
Kept(item) == HasBoth(item) /\ (item["value"] = JNull \/ Float(item["value"]).ok)
ExpectedPoints == SelectSeq(sensor_data, Kept)
NullPoints == {i \in DOMAIN sensor_data : HasBoth(sensor_data[i]) /\ sensor_data[i]["value"] = JNull}
AbcPoints ==
    {i \in DOMAIN sensor_data :
        HasBoth(sensor_data[i]) /\ sensor_data[i]["value"] = JStr(<<"a", "b", "c">>)}

\* C6: once a fetched series is normalised, the batch is exactly the points
\* that have "createdAt" and "value" and whose value is null or converts to a
\* float, in the order returned: a null value is kept as a null measurement,
\* a value "abc" is dropped and the other points stay, and the count printed
\* after the commit is the size of that batch.
C6_BatchIsValidPoints ==
    pc \in {"insert", "commit", "iter_end"} =>
        /\ Len(data_to_insert) = Len(ExpectedPoints)
        /\ \A i \in DOMAIN data_to_insert :
             /\ data_to_insert[i].timestamp = ExpectedPoints[i]["createdAt"]
             /\ data_to_insert[i].sensor_id = sensor_id
             /\ data_to_insert[i].measurement =
                  IF ExpectedPoints[i]["value"] = JNull THEN Null
                  ELSE Float(ExpectedPoints[i]["value"]).val
        /\ Cardinality(NullPoints) =
             Cardinality({i \in DOMAIN data_to_insert : data_to_insert[i].measurement = Null})
        /\ Len(data_to_insert) + Cardinality(AbcPoints) <= Len(sensor_data)
        /\ LastEvent = "inserted" => log[Len(log)].count = Len(ExpectedPoints)

\* A series of a null-valued point and an "abc" point was committed: one
\* record, with a null measurement.
C6_Witness ==
    /\ pc = "iter_end"
    /\ LastEvent = "inserted"
    /\ NullPoints # {}
    /\ AbcPoints # {}
    /\ log[Len(log)].count = 1
    /\ \E r \in Rows : r.measurement = Null

\* C7: committed rows are never removed, by no step of any kind; the table
\* changes only at a sensor's commit, which adds rows of that sensor's batch;
\* and a batch reported inserted is in the table with no transaction open.
C7_SensorGranularDurability ==
    /\ [][/\ store \sqsubseteq store'
          /\ store' # store =>
               /\ pc = "commit" /\ pc' = "iter_end"
               /\ BagToSet(store') \ Rows \subseteq Batch]_vars
    /\ []((LastEvent = "inserted" /\ pc = "iter_end") =>
            /\ pending = EmptyBag
            /\ BatchKeys(data_to_insert) \subseteq Keys(Rows))

\* The first sensor's batch was committed, the second sensor's insert
\* raised, and the first sensor's rows are in the table.
C7_Witness ==
    /\ Len(log) = 2
    /\ log[1].event = "inserted"
    /\ log[2].event = "unexpected_db"
    /\ log[1].sensor # log[2].sensor
    /\ \E r \in Rows : r.sensor_id = log[1].sensor
    /\ ~\E r \in Rows : r.sensor_id = log[2].sensor

\* C8: the read and the serving come only after the loop has visited every
\* sensor and the insert connection is closed, and never after sys.exit(1);
\* once there the run does not go back and the table is not written; after
\* the finally of a run that did not exit, the read is what comes next.
C8_TwoPhases ==
    /\ [](Serving =>
            /\ exit_code = -1
            /\ conn_insert = "closed"
            /\ pending = EmptyBag
            /\ idx > Len(sensor_details)
            /\ Cardinality(SensorEvents) = Len(sensor_details))
    /\ [][Serving => (Serving' /\ store' = store) \/ run' = run + 1]_vars
    /\ [][exit_code = 1 => ~Serving']_vars
    /\ [][(pc = "finally" /\ exit_code = -1) => pc' = "read"]_vars

\* The app serves after a run in which one sensor's fetch failed and
\* another's batch was committed.
C8_Witness ==
    /\ pc = "serving"
    /\ Logged("fetch_failed")
    /\ Logged("inserted")
    /\ conn_insert = "closed"

\* C9 (as claimed): after a database error of the dashboard read the process
\* has ended; it does not build the layout or serve.
C9_ReadErrorIsFatal == Logged("read_error") => (pc = "exited" /\ exit_code = 1)

\* C9 (amended): a database error of the dashboard read is not fatal: the
\* frame stays empty, the script goes on to the layout, and what is served
\* is the placeholder, without panels.
C9_ReadErrorServesPlaceholder ==
    Logged("read_error") =>
        /\ exit_code = -1
        /\ df_all_sensors = <<>>
        /\ pc \in {"layout", "serving"}
        /\ pc = "serving" => graphs = <<>> /\ layout = "placeholder"

\* The app serves the placeholder after a read error although the table
\* holds a plottable row of the box.
C9_Witness ==
    /\ pc = "serving"
    /\ Logged("read_error")
    /\ layout = "placeholder"
    /\ \E r \in Rows : r.box_id = SENSEBOX_ID /\ r.measurement.k = "num"

CleanRows == {r \in Rows : r.box_id = SENSEBOX_ID /\ r.measurement.k = "num"}
PanelIds == {graphs[i].title[2] : i \in DOMAIN graphs}

\* C10: when the read succeeded, there is exactly one panel per sensor id
\* that has a row of the box left after the rows with a null or non-numeric
\* measurement are dropped; a panel carries the type and id of a row of its
\* sensor and that row's unit when it is non-empty; with no row left there
\* is no panel and the placeholder is shown.
C10_OnePanelPerSensor ==
    (pc = "serving" /\ ~Logged("read_error")) =>
        /\ PanelIds = {r.sensor_id : r \in CleanRows}
        /\ Len(graphs) = Cardinality(PanelIds)
        /\ \A i \in DOMAIN graphs : \E r \in CleanRows :
             /\ graphs[i].title = <<r.sensor_type, r.sensor_id>>
             /\ graphs[i].yaxis =
                  IF r.unit # "" THEN <<r.sensor_type, r.unit>> ELSE <<r.sensor_type>>
        /\ layout = IF CleanRows = {} THEN "placeholder" ELSE "graphs"

\* Two panels of different types are served, one labelled with its unit and
\* one without, from a table that also holds a null measurement and a row of
\* another box.
C10_Witness ==
    /\ pc = "serving"
    /\ ~Logged("read_error")
    /\ Len(graphs) = 2
    /\ graphs[1].title[1] # graphs[2].title[1]
    /\ Len(graphs[1].yaxis) # Len(graphs[2].yaxis)
    /\ \E r \in Rows : r.measurement = Null
    /\ \E r \in Rows : r.box_id = OtherBox

====
